---- MODULE Spec2Model ----
(***************************************************************************)
(* Role-based access control core of the hospitality backend:              *)
(* the permission catalog (pre_create_permissions), the role store          *)
(* (create_staff_role, update_role_with_permissions), role assignment, the  *)
(* permission check (has_permission / check_permission) and the             *)
(* department / outlet services of app/services/profile_service.py.         *)
(***************************************************************************)
EXTENDS Naturals, Sequences, FiniteSets, TLC

\* Python None / SQL NULL.
NULL == "null"

(***************************************************************************)
(* Bounds of the model.                                                    *)
(***************************************************************************)
\* Longest permission list a role update request carries.
MaxPermLen == 2
\* Highest autoincrement id handed out to a role.
MaxRoles == 2
\* Highest autoincrement id handed out to a department.
MaxDepartments == 1
\* Highest autoincrement id handed out to an outlet.
MaxOutlets == 1
\* Number of times the process is started.
MaxBoots == 2
\* Number of worker processes that run against the one database.
MaxWorkers == 2
\* Number of password reset tokens that are issued.
MaxResets == 2
\* Number of refresh tokens the refresh_tokens table holds.
MaxRefreshTokens == 2

(***************************************************************************)
(* Enumerations and users.                                                 *)
(***************************************************************************)
\* ActionEnum and ResourceEnum, in iteration order.
ActionEnum == <<"create", "delete">>
ResourceEnum == <<"departments", "outlets">>

\* UserType.
COMPANY == "company"
GUEST == "guest"
STAFF == "staff"

\* The users table: two companies, one staff member of company cA, one guest.
Users == {"cA", "cB", "sA", "g"}
Companies == {u \in Users : u \in {"cA", "cB"}}
user_type == [u \in Users |->
                 CASE u \in {"cA", "cB"} -> COMPANY
                   [] u = "sA" -> STAFF
                   [] OTHER -> GUEST]
company_id == [u \in Users |-> IF u = "sA" THEN "cA" ELSE NULL]

\* users.role_id of a user that has no role (SQL NULL in the integer column).
NoRole == 0

VARIABLES
    phase,        \* "startup" before the lifespan hook has run, "serving" after
    permissions,  \* permissions table: set of [id, name, description]
    roles,        \* roles table: set of [id, name, company_id, user_permissions]
    role_id,      \* users.role_id: user -> role id, or NoRole
    departments,  \* departments table: set of [id, name, company_id]
    outlets,      \* outlets table: set of [id, name, company_id]
    seq,          \* autoincrement sequences: table name -> last id handed out
    printed,      \* what the startup hook has printed, one entry per run: n for
                  \* "Added n new permissions", 0 for "No new permissions to add."
    no_post_list, \* no_post_list table: set of [id, company_id, no_post_list]
    workers,      \* where the deployment runs several worker processes: worker ->
                  \* its position and what it holds that is not committed yet
    password,     \* users.password: user -> the hash stored
    password_resets, \* password_resets table: set of [token, user_id, expired, is_used]
    refresh_tokens   \* refresh_tokens table: set of [token, user_id, is_revoked]

vars == <<phase, permissions, roles, role_id, departments, outlets, seq, printed,
          no_post_list, workers, password, password_resets, refresh_tokens>>

\* The worker processes, and a worker whose lifespan hook has not begun.
Workers == 1..MaxWorkers
NoStaffRole == [name |-> NULL, company_id |-> NULL]
NotStarted == [pc |-> "startup", existing_permissions |-> {}, staff_role |-> NoStaffRole]

\* hash_password and verify_password: verify accepts the password the hash
\* was made of and no other.
hash_password(plain_password) == "bcrypt(" \o plain_password \o ")"
verify_password(plain_password, hashed_password) == hashed_password = hash_password(plain_password)

\* The password every user registered with.
InitialPassword == "secret-1"

\* What a request handler hands back: the exception that left it (NULL when it
\* returned), the exception's message, the value returned, and the rows of the
\* table it writes as they are once the request is over.
Outcome(exc, detail, result, rows) ==
    [exc |-> exc, detail |-> detail, result |-> result, rows |-> rows]

(***************************************************************************)
(* Permission catalog.                                                     *)
(***************************************************************************)
\* generate_permission joining the two words as the description does.
generate_permission_with_space(action, resource) == action \o " " \o resource

generate_permission(action, resource) == action \o "_" \o resource

\* The (action, resource) pairs in the order of the nested loops of
\* pre_create_permissions.
ActionResourcePairs ==
    [i \in 1..(Len(ActionEnum) * Len(ResourceEnum)) |->
        [action |-> ActionEnum[((i - 1) \div Len(ResourceEnum)) + 1],
         resource |-> ResourceEnum[((i - 1) % Len(ResourceEnum)) + 1]]]

PermissionNames ==
    {generate_permission(ActionResourcePairs[i].action, ActionResourcePairs[i].resource) :
        i \in DOMAIN ActionResourcePairs}

\* Rows of a table inserted one after the other get consecutive ids.
MaxId(rows) == IF rows = {} THEN 0 ELSE CHOOSE m \in {r.id : r \in rows} : \A r \in rows : r.id <= m

\* The list `permissions` pre_create_permissions builds: one entry per pair
\* whose name is not among the existing names.
NewPermissionsNoExistenceCheck(existing_permissions) ==
    [i \in DOMAIN ActionResourcePairs |->
        [name |-> generate_permission(ActionResourcePairs[i].action, ActionResourcePairs[i].resource),
         description |-> ActionResourcePairs[i].action \o " " \o ActionResourcePairs[i].resource]]

\* The list cut to its first entry: a run adds one missing name at most.
NewPermissionsFirstMissing(existing_permissions) ==
    SubSeq(SelectSeq(
               [i \in DOMAIN ActionResourcePairs |->
                   [name |-> generate_permission(ActionResourcePairs[i].action,
                                                 ActionResourcePairs[i].resource),
                    description |-> ActionResourcePairs[i].action \o " "
                                       \o ActionResourcePairs[i].resource]],
               LAMBDA perm : perm.name \notin existing_permissions),
           1, 1)

NewPermissions(existing_permissions) ==
    SelectSeq(
        [i \in DOMAIN ActionResourcePairs |->
            [name |-> generate_permission(ActionResourcePairs[i].action, ActionResourcePairs[i].resource),
             description |-> ActionResourcePairs[i].action \o " " \o ActionResourcePairs[i].resource]],
        LAMBDA perm : perm.name \notin existing_permissions)

\* pre_create_permissions, run by the lifespan hook before requests are served.
pre_create_permissions ==
    /\ phase = "startup"
    /\ LET existing_permissions == {p.name : p \in permissions}
           new == NewPermissions(existing_permissions)
           base == MaxId(permissions)
       IN /\ permissions' = permissions \cup
                 {[id |-> base + i, name |-> new[i].name, description |-> new[i].description] :
                     i \in DOMAIN new}
          /\ printed' = Append(printed, Len(new))
    /\ phase' = "serving"
    /\ UNCHANGED <<roles, role_id, departments, outlets, seq>>
    /\ UNCHANGED <<no_post_list, workers, password, password_resets, refresh_tokens>>

\* The process is restarted: the database keeps its rows, the hook runs again.
Restart ==
    /\ phase = "serving"
    /\ Len(printed) < MaxBoots
    /\ phase' = "startup"
    /\ UNCHANGED <<permissions, roles, role_id, departments, outlets, seq, printed>>
    /\ UNCHANGED <<no_post_list, workers, password, password_resets, refresh_tokens>>

(***************************************************************************)
(* Specification of the catalog alone, started from any catalog.           *)
(***************************************************************************)
\* Injective sequences of permission names: the rows of a starting catalog
\* in the order they were inserted.
RECURSIVE InsertionOrders(_)
InsertionOrders(names) ==
    {<<>>} \cup UNION {{<<n>> \o s : s \in InsertionOrders(names \ {n})} : n \in names}

Description(name) ==
    LET i == CHOOSE j \in DOMAIN ActionResourcePairs :
                 generate_permission(ActionResourcePairs[j].action, ActionResourcePairs[j].resource) = name
    IN ActionResourcePairs[i].action \o " " \o ActionResourcePairs[i].resource

EmptyTables ==
    /\ roles = {}
    /\ role_id = [u \in Users |-> NoRole]
    /\ departments = {}
    /\ outlets = {}
    /\ seq = [t \in {"roles", "departments", "outlets"} |-> 0]
    /\ printed = <<>>
    /\ no_post_list = {}
    /\ workers = [w \in Workers |-> NotStarted]
    /\ password = [u \in Users |-> hash_password(InitialPassword)]
    /\ password_resets = {}
    /\ refresh_tokens = {}

InitCatalog ==
    /\ phase = "startup"
    /\ \E s \in InsertionOrders(PermissionNames) :
           permissions = {[id |-> i, name |-> s[i], description |-> Description(s[i])] : i \in DOMAIN s}
    /\ EmptyTables

NextCatalog == pre_create_permissions \/ Restart

SpecCatalog == InitCatalog /\ [][NextCatalog]_vars

(***************************************************************************)
(* Access control check.                                                   *)
(***************************************************************************)
\* company_id = current_user.id if COMPANY else current_user.company_id
EffectiveCompany(u) == IF user_type[u] = COMPANY THEN u ELSE company_id[u]

\* user.role: the role row users.role_id refers to, when it is set.
HasRole(u) == role_id[u] # NoRole
UserRole(u) == CHOOSE r \in roles : r.id = role_id[u]

\* has_permission comparing the wrong field of the snapshot.
has_permission_by_description(u, required_permission) ==
    IF ~HasRole(u) \/ UserRole(u).user_permissions = <<>>
    THEN FALSE
    ELSE \E i \in DOMAIN UserRole(u).user_permissions :
             UserRole(u).user_permissions[i].description = required_permission

has_permission(u, required_permission) ==
    IF ~HasRole(u) \/ UserRole(u).user_permissions = <<>>
    THEN FALSE
    ELSE \E i \in DOMAIN UserRole(u).user_permissions :
             UserRole(u).user_permissions[i].name = required_permission

\* The HTTPException check_permission raises; nothing is written.
PermissionDeniedDetail(required_permission) == "Permission denied: " \o required_permission
check_permission(required_permission, rows) ==
    Outcome("HTTP_403_FORBIDDEN", PermissionDeniedDetail(required_permission), NULL, rows)

(***************************************************************************)
(* The store's unique constraints and the text of their violation.         *)
(***************************************************************************)
\* UniqueConstraint("name", "company_id", name=...) of Role, Department, Outlet.
UniqueColumns == <<"name", "company_id">>

\* A table without the constraint: no insert conflicts.
ConflictsWithoutConstraint(rows, name, cid) == FALSE

Conflicts(rows, name, cid) == \E r \in rows : r.name = name /\ r.company_id = cid

\* str(e) of the IntegrityError of a violated constraint: it names the driver's
\* UniqueViolationError, the constraint, and "Key (<columns>)=(<values>)".
UniqueViolation(constraint, name, cid) ==
    [error |-> "UniqueViolationError", constraint |-> constraint,
     key |-> UniqueColumns, value |-> <<name, cid>>]

\* re.search(r"Key \((\w+)\)=\((\w+)\)", error_detail): each group is one word,
\* so the pattern matches only a key of one column; <<>> stands for no match.
key_match(error_detail) ==
    IF Len(error_detail.key) = 1 /\ Len(error_detail.value) = 1
    THEN <<error_detail.key[1], error_detail.value[1]>>
    ELSE <<>>

\* The message of the exception the handlers raise when the pattern matches.
AlreadyExists(what, key, value) ==
    what \o " with this " \o key \o " '" \o value \o "' already exists for this company"

\* str.lower() on the names requests carry.
lower(name) ==
    CASE name = "Waiter" -> "waiter"
      [] name = "Kitchen" -> "kitchen"
      [] OTHER -> name

(***************************************************************************)
(* Role store.                                                             *)
(***************************************************************************)
\* create_staff_role once the commit has failed on the role_name constraint:
\* the except clause raises only if the pattern matches, else the function
\* ends without a return statement.
create_staff_role_except(u, name) ==
    LET error_detail == UniqueViolation("role_name", name, u)
    IN IF error_detail.error = "UniqueViolationError" /\ error_detail.constraint = "role_name"
          /\ key_match(error_detail) # <<>>
       THEN Outcome("Exception",
                    AlreadyExists("A role", key_match(error_detail)[1], key_match(error_detail)[2]),
                    NULL, roles)
       ELSE Outcome(NULL, NULL, NULL, roles)

\* create_staff_role without the test of the user type.
create_staff_role_any_user_type(u, data_name) ==
    IF Conflicts(roles, lower(data_name), u)
    THEN create_staff_role_except(u, lower(data_name))
    ELSE LET staff_role == [id |-> seq["roles"] + 1, name |-> lower(data_name),
                            company_id |-> u, user_permissions |-> <<>>]
         IN Outcome(NULL, NULL,
                    [id |-> staff_role.id, name |-> staff_role.name,
                     company_id |-> staff_role.company_id],
                    roles \cup {staff_role})

create_staff_role(u, data_name) ==
    IF user_type[u] # COMPANY
    THEN Outcome("Exception", "Permission denied! Company admin only", NULL, roles)
    ELSE IF Conflicts(roles, lower(data_name), u)
    THEN create_staff_role_except(u, lower(data_name))
    ELSE LET staff_role == [id |-> seq["roles"] + 1, name |-> lower(data_name),
                            company_id |-> u, user_permissions |-> <<>>]
         IN Outcome(NULL, NULL,
                    [id |-> staff_role.id, name |-> staff_role.name,
                     company_id |-> staff_role.company_id],
                    roles \cup {staff_role})

\* get_permission_by_name: the snapshot of the catalog row of that name. The
\* row is dereferenced without a test, so a name the catalog lacks ends the
\* caller with an AttributeError.
KnownPermission(name) == \E p \in permissions : p.name = name
get_permission_by_name(name) ==
    LET permission == CHOOSE p \in permissions : p.name = name
    IN [id |-> permission.id, name |-> permission.name, description |-> permission.description]

\* update_role_with_permissions committing each permission as it is resolved:
\* the names before one the catalog lacks are written when the request fails.
update_role_with_permissions_partial(u, rid, data_permissions) ==
    IF ~\E r \in roles : r.company_id = u /\ r.id = rid
    THEN Outcome("Exception", "No role exists for this company", NULL, roles)
    ELSE LET role == CHOOSE r \in roles : r.company_id = u /\ r.id = rid
             resolved == SelectSeq(data_permissions,
                                   LAMBDA name : KnownPermission(name))
             updated == [role EXCEPT !.user_permissions =
                            [i \in DOMAIN resolved |-> get_permission_by_name(resolved[i])]]
         IN IF \E i \in DOMAIN data_permissions : ~KnownPermission(data_permissions[i])
            THEN Outcome("AttributeError", "'NoneType' object has no attribute 'id'", NULL,
                         (roles \ {role}) \cup {updated})
            ELSE Outcome(NULL, NULL, updated, (roles \ {role}) \cup {updated})

\* update_role_with_permissions selecting the role by the caller's effective
\* company, as the department and outlet handlers select their rows.
update_role_with_permissions_effective_company(u, rid, data_permissions) ==
    IF ~\E r \in roles : r.company_id = EffectiveCompany(u) /\ r.id = rid
    THEN Outcome("Exception", "No role exists for this company", NULL, roles)
    ELSE IF \E i \in DOMAIN data_permissions : ~KnownPermission(data_permissions[i])
    THEN Outcome("AttributeError", "'NoneType' object has no attribute 'id'", NULL, roles)
    ELSE LET role == CHOOSE r \in roles : r.company_id = EffectiveCompany(u) /\ r.id = rid
             updated == [role EXCEPT !.user_permissions =
                            [i \in DOMAIN data_permissions |->
                                get_permission_by_name(data_permissions[i])]]
         IN Outcome(NULL, NULL, updated, (roles \ {role}) \cup {updated})

\* update_role_with_permissions appending to the list the role has.
update_role_with_permissions_merge(u, rid, data_permissions) ==
    IF ~\E r \in roles : r.company_id = u /\ r.id = rid
    THEN Outcome("Exception", "No role exists for this company", NULL, roles)
    ELSE IF \E i \in DOMAIN data_permissions : ~KnownPermission(data_permissions[i])
    THEN Outcome("AttributeError", "'NoneType' object has no attribute 'id'", NULL, roles)
    ELSE LET role == CHOOSE r \in roles : r.company_id = u /\ r.id = rid
             updated == [role EXCEPT !.user_permissions =
                            @ \o [i \in DOMAIN data_permissions |->
                                     get_permission_by_name(data_permissions[i])]]
         IN Outcome(NULL, NULL, updated, (roles \ {role}) \cup {updated})

\* update_role_with_permissions selecting the role by its id alone.
update_role_with_permissions_any_company(u, rid, data_permissions) ==
    IF ~\E r \in roles : r.id = rid
    THEN Outcome("Exception", "No role exists for this company", NULL, roles)
    ELSE IF \E i \in DOMAIN data_permissions : ~KnownPermission(data_permissions[i])
    THEN Outcome("AttributeError", "'NoneType' object has no attribute 'id'", NULL, roles)
    ELSE LET role == CHOOSE r \in roles : r.id = rid
             updated == [role EXCEPT !.user_permissions =
                            [i \in DOMAIN data_permissions |->
                                get_permission_by_name(data_permissions[i])]]
         IN Outcome(NULL, NULL, updated, (roles \ {role}) \cup {updated})

\* update_role_with_permissions whose assignment to the role is never committed.
update_role_with_permissions_uncommitted(u, rid, data_permissions) ==
    IF ~\E r \in roles : r.company_id = u /\ r.id = rid
    THEN Outcome("Exception", "No role exists for this company", NULL, roles)
    ELSE IF \E i \in DOMAIN data_permissions : ~KnownPermission(data_permissions[i])
    THEN Outcome("AttributeError", "'NoneType' object has no attribute 'id'", NULL, roles)
    ELSE Outcome(NULL, NULL, CHOOSE r \in roles : r.company_id = u /\ r.id = rid, roles)

update_role_with_permissions(u, rid, data_permissions) ==
    IF ~\E r \in roles : r.company_id = u /\ r.id = rid
    THEN Outcome("Exception", "No role exists for this company", NULL, roles)
    ELSE IF \E i \in DOMAIN data_permissions : ~KnownPermission(data_permissions[i])
    THEN Outcome("AttributeError", "'NoneType' object has no attribute 'id'", NULL, roles)
    ELSE LET role == CHOOSE r \in roles : r.company_id = u /\ r.id = rid
             updated == [role EXCEPT !.user_permissions =
                            [i \in DOMAIN data_permissions |->
                                get_permission_by_name(data_permissions[i])]]
         IN Outcome(NULL, NULL, updated, (roles \ {role}) \cup {updated})

\* get_company_staff_role: scalar_one_or_none() of the roles with that id and
\* company_id = current_user.id; the empty set stands for None.
get_company_staff_role_by_id(u, rid) == {r \in roles : r.id = rid}

get_company_staff_role(u, rid) == {r \in roles : r.company_id = u /\ r.id = rid}

\* get_all_company_staff_roles: the roles with company_id = current_user.id.
get_all_company_staff_roles(u) == {r \in roles : r.company_id = u}

(***************************************************************************)
(* Role assignment.                                                        *)
(***************************************************************************)
\* assign_role_to_user: the target user and the role must exist; the role is
\* then bound to the user. The role's company is not compared with the
\* acting company.
\* assign_role_to_user binding the id it is given without looking the role up.
assign_role_to_user_without_role_lookup(u, user_id, rid) ==
    IF user_id \notin Users
    THEN Outcome("NotFound", "user", NULL, role_id)
    ELSE Outcome(NULL, NULL, [user_id |-> user_id, role_id |-> rid],
                 [role_id EXCEPT ![user_id] = rid])

assign_role_to_user(u, user_id, rid) ==
    IF user_id \notin Users
    THEN Outcome("NotFound", "user", NULL, role_id)
    ELSE IF ~\E r \in roles : r.id = rid
    THEN Outcome("NotFound", "role", NULL, role_id)
    ELSE Outcome(NULL, NULL, [user_id |-> user_id, role_id |-> rid],
                 [role_id EXCEPT ![user_id] = rid])

(***************************************************************************)
(* Departments and outlets.                                                *)
(***************************************************************************)
\* create_department / create_outlet once the commit has failed on the
\* table's unique constraint: as in create_staff_role, the except clause
\* raises only if the pattern matches.
create_except(constraint, what, u, name, rows) ==
    LET error_detail == UniqueViolation(constraint, name, u)
    IN IF error_detail.constraint = constraint /\ key_match(error_detail) # <<>>
       THEN Outcome("Exception",
                    AlreadyExists(what, key_match(error_detail)[1], key_match(error_detail)[2]),
                    NULL, rows)
       ELSE Outcome(NULL, NULL, NULL, rows)

\* create_department without the permission gate.
create_department_unchecked(u, data_name) ==
    IF Conflicts(departments, lower(data_name), u)
    THEN create_except("department_name", "A department", u, lower(data_name), departments)
    ELSE LET department == [id |-> seq["departments"] + 1, name |-> lower(data_name),
                            company_id |-> u]
         IN Outcome(NULL, NULL, department, departments \cup {department})

create_department(u, data_name) ==
    IF ~has_permission(u, "create_departments")
    THEN check_permission("create_departments", departments)
    ELSE IF Conflicts(departments, lower(data_name), u)
    THEN create_except("department_name", "A department", u, lower(data_name), departments)
    ELSE LET department == [id |-> seq["departments"] + 1, name |-> lower(data_name),
                            company_id |-> u]
         IN Outcome(NULL, NULL, department, departments \cup {department})

\* get_company_departments filtering on the caller's own id.
get_company_departments_of_caller_id(u) == {d \in departments : d.company_id = u}

get_company_departments(u) == {d \in departments : d.company_id = EffectiveCompany(u)}

\* delete_company_department looking the department up by id alone.
delete_company_department_any_company(u, department_id) ==
    IF ~has_permission(u, "delete_departments")
    THEN check_permission("delete_departments", departments)
    ELSE IF ~\E d \in departments : d.id = department_id
    THEN Outcome("HTTP_404_NOT_FOUND",
                 "Department with ID " \o ToString(department_id) \o " not found", NULL, departments)
    ELSE Outcome(NULL, NULL, NULL, {d \in departments : d.id # department_id})

delete_company_department(u, department_id) ==
    IF ~has_permission(u, "delete_departments")
    THEN check_permission("delete_departments", departments)
    ELSE IF ~\E d \in departments : d.company_id = EffectiveCompany(u) /\ d.id = department_id
    THEN Outcome("HTTP_404_NOT_FOUND",
                 "Department with ID " \o ToString(department_id) \o " not found", NULL, departments)
    ELSE Outcome(NULL, NULL, NULL,
                 {d \in departments : ~(d.company_id = EffectiveCompany(u) /\ d.id = department_id)})

create_outlet(u, data_name) ==
    IF ~has_permission(u, "create_outlets")
    THEN check_permission("create_outlets", outlets)
    ELSE IF Conflicts(outlets, lower(data_name), u)
    THEN create_except("outlet_name", "Outlet", u, lower(data_name), outlets)
    ELSE LET outlet == [id |-> seq["outlets"] + 1, name |-> lower(data_name), company_id |-> u]
         IN Outcome(NULL, NULL, outlet, outlets \cup {outlet})

get_company_outlets(u) == {o \in outlets : o.company_id = EffectiveCompany(u)}

delete_company_outlet(u, outlet_id) ==
    IF ~has_permission(u, "delete_outlets")
    THEN check_permission("delete_outlets", outlets)
    ELSE IF ~\E o \in outlets : o.company_id = EffectiveCompany(u) /\ o.id = outlet_id
    THEN Outcome("HTTP_404_NOT_FOUND",
                 "Outlet with ID " \o ToString(outlet_id) \o " not found", NULL, outlets)
    ELSE Outcome(NULL, NULL, NULL,
                 {o \in outlets : ~(o.company_id = EffectiveCompany(u) /\ o.id = outlet_id)})

(***************************************************************************)
(* Inputs of the requests.                                                 *)
(***************************************************************************)
RoleNameInputs == {"Waiter", "waiter"}
ResourceNameInputs == {"Kitchen", "kitchen"}
\* A name the catalog lacks.
UnknownPermissionName == "read_rooms"
\* Permission lists of a role update: every list up to MaxPermLen over two of
\* the catalog's names and the unknown one.
PermissionNameInputs == {"create_departments", "delete_outlets", UnknownPermissionName}
PermissionListInputs == UNION {[1..n -> PermissionNameInputs] : n \in 0..MaxPermLen}
\* Permission lists of a role update where departments and outlets are
\* managed: none, those of a department manager, those of an outlet manager,
\* and one the catalog cannot resolve.
GrantInputs ==
    {<<>>, <<"create_departments", "delete_departments">>,
     <<"create_outlets", "delete_outlets">>, <<"create_departments", UnknownPermissionName>>}
RoleIdInputs == 1..MaxRoles
\* user_id of a role assignment: a user of each company, and an id no user has.
UserIdInputs == {"cA", "cB", "sA", "nobody"}

(***************************************************************************)
(* Requests: a handler runs, its writes are committed.                     *)
(***************************************************************************)
CreateStaffRole(u, data_name) ==
    /\ phase = "serving"
    /\ roles' = create_staff_role(u, data_name).rows
    /\ roles' # roles => seq["roles"] < MaxRoles
    /\ seq' = [seq EXCEPT !["roles"] = IF roles' # roles THEN @ + 1 ELSE @]
    /\ UNCHANGED <<phase, permissions, role_id, departments, outlets, printed>>
    /\ UNCHANGED <<no_post_list, workers, password, password_resets, refresh_tokens>>

UpdateRoleWithPermissions(u, rid, data_permissions) ==
    /\ phase = "serving"
    /\ roles' = update_role_with_permissions(u, rid, data_permissions).rows
    /\ UNCHANGED <<phase, permissions, role_id, departments, outlets, seq, printed>>
    /\ UNCHANGED <<no_post_list, workers, password, password_resets, refresh_tokens>>

AssignRoleToStaff(u, user_id, rid) ==
    /\ phase = "serving"
    /\ role_id' = assign_role_to_user(u, user_id, rid).rows
    /\ UNCHANGED <<phase, permissions, roles, departments, outlets, seq, printed>>
    /\ UNCHANGED <<no_post_list, workers, password, password_resets, refresh_tokens>>

CreateDepartment(u, data_name) ==
    /\ phase = "serving"
    /\ departments' = create_department(u, data_name).rows
    /\ departments' # departments => seq["departments"] < MaxDepartments
    /\ seq' = [seq EXCEPT !["departments"] = IF departments' # departments THEN @ + 1 ELSE @]
    /\ UNCHANGED <<phase, permissions, roles, role_id, outlets, printed>>
    /\ UNCHANGED <<no_post_list, workers, password, password_resets, refresh_tokens>>

DeleteCompanyDepartment(u, department_id) ==
    /\ phase = "serving"
    /\ departments' = delete_company_department(u, department_id).rows
    /\ UNCHANGED <<phase, permissions, roles, role_id, outlets, seq, printed>>
    /\ UNCHANGED <<no_post_list, workers, password, password_resets, refresh_tokens>>

CreateOutlet(u, data_name) ==
    /\ phase = "serving"
    /\ outlets' = create_outlet(u, data_name).rows
    /\ outlets' # outlets => seq["outlets"] < MaxOutlets
    /\ seq' = [seq EXCEPT !["outlets"] = IF outlets' # outlets THEN @ + 1 ELSE @]
    /\ UNCHANGED <<phase, permissions, roles, role_id, departments, printed>>
    /\ UNCHANGED <<no_post_list, workers, password, password_resets, refresh_tokens>>

DeleteCompanyOutlet(u, outlet_id) ==
    /\ phase = "serving"
    /\ outlets' = delete_company_outlet(u, outlet_id).rows
    /\ UNCHANGED <<phase, permissions, roles, role_id, departments, seq, printed>>
    /\ UNCHANGED <<no_post_list, workers, password, password_resets, refresh_tokens>>

\* A fresh database.
Init ==
    /\ phase = "startup"
    /\ permissions = {}
    /\ EmptyTables

(***************************************************************************)
(* The role store and role assignment.                                     *)
(***************************************************************************)
NextRoles ==
    \/ pre_create_permissions
    \/ \E u \in Users, name \in RoleNameInputs : CreateStaffRole(u, name)
    \/ \E u \in Users, rid \in RoleIdInputs, names \in PermissionListInputs :
           UpdateRoleWithPermissions(u, rid, names)
    \/ \E u \in Users, user_id \in UserIdInputs, rid \in RoleIdInputs :
           AssignRoleToStaff(u, user_id, rid)

SpecRoles == Init /\ [][NextRoles]_vars

(***************************************************************************)
(* The whole service: roles, assignment, departments and outlets.          *)
(***************************************************************************)
Next ==
    \/ pre_create_permissions
    \/ \E u \in Users, name \in RoleNameInputs : CreateStaffRole(u, name)
    \/ \E u \in Users, rid \in RoleIdInputs, names \in GrantInputs :
           UpdateRoleWithPermissions(u, rid, names)
    \/ \E u \in Users, user_id \in UserIdInputs, rid \in RoleIdInputs :
           AssignRoleToStaff(u, user_id, rid)
    \/ \E u \in Users, name \in ResourceNameInputs : CreateDepartment(u, name)
    \/ \E u \in Users, id \in 1..MaxDepartments : DeleteCompanyDepartment(u, id)
    \/ \E u \in Users, name \in ResourceNameInputs : CreateOutlet(u, name)
    \/ \E u \in Users, id \in 1..MaxOutlets : DeleteCompanyOutlet(u, id)

Spec == Init /\ [][Next]_vars

(***************************************************************************)
(* The no-post list.                                                       *)
(***************************************************************************)
\* NoPostCreate: the request body, a record of the one field no_post_list.
NoPostInputs == {"101,102", "205"}
NoPostCreate(content) == [no_post_list |-> content]

\* create_no_post_list. Its first statement builds a NoPost from
\* data.name.lower(); reading a field the body does not have ends the request
\* with an AttributeError before the store is asked for the existing record.
create_no_post_list(u, data) ==
    IF "name" \notin DOMAIN data
    THEN Outcome("AttributeError", "'NoPostCreate' object has no attribute 'name'",
                 NULL, no_post_list)
    ELSE LET existing == {r \in no_post_list : r.company_id = EffectiveCompany(u)}
         IN IF Cardinality(existing) > 1
            THEN Outcome("MultipleResultsFound", NULL, NULL, no_post_list)
            ELSE IF existing # {}
            THEN LET existing_record == CHOOSE r \in existing : TRUE
                     updated == [existing_record EXCEPT !.no_post_list = data.no_post_list]
                 IN Outcome(NULL, NULL, updated, (no_post_list \ {existing_record}) \cup {updated})
            ELSE LET record == [id |-> MaxId(no_post_list) + 1,
                                company_id |-> EffectiveCompany(u),
                                no_post_list |-> data.no_post_list]
                 IN Outcome(NULL, NULL, record, no_post_list \cup {record})

get_company_no_post_list(u) == {r \in no_post_list : r.company_id = EffectiveCompany(u)}

(***************************************************************************)
(* Several worker processes on the one database: each runs the lifespan    *)
(* hook when it starts and then serves requests. A statement that reads or *)
(* commits is one step; the steps of the workers interleave.               *)
(***************************************************************************)
\* pre_create_permissions up to the select: the names the catalog holds now.
SelectPermissionNames(w) ==
    /\ workers[w].pc = "startup"
    /\ workers' = [workers EXCEPT ![w] =
                      [@ EXCEPT !.pc = "selected",
                                !.existing_permissions = {p.name : p \in permissions}]]
    /\ UNCHANGED <<phase, permissions, roles, role_id, departments, outlets, seq, printed,
                   no_post_list>>
    /\ UNCHANGED <<password, password_resets, refresh_tokens>>

\* The unique constraint of permissions.name against the rows committed.
PermissionNameTaken(new) == \E i \in DOMAIN new : KnownPermission(new[i].name)

\* pre_create_permissions from the loops on: the rows for the names that were
\* missing when the worker read are added and committed. The commit of a name
\* that has been committed since fails on the unique constraint; the
\* IntegrityError is not caught and ends the worker's startup.
AddNewPermissions(w) ==
    /\ workers[w].pc = "selected"
    /\ LET new == NewPermissions(workers[w].existing_permissions)
           base == MaxId(permissions)
       IN \/ /\ new = <<>>
             /\ printed' = Append(printed, 0)
             /\ workers' = [workers EXCEPT ![w] = [@ EXCEPT !.pc = "serving"]]
             /\ UNCHANGED permissions
          \/ /\ new # <<>>
             /\ ~PermissionNameTaken(new)
             /\ permissions' = permissions \cup
                    {[id |-> base + i, name |-> new[i].name, description |-> new[i].description] :
                        i \in DOMAIN new}
             /\ printed' = Append(printed, Len(new))
             /\ workers' = [workers EXCEPT ![w] = [@ EXCEPT !.pc = "serving"]]
          \/ /\ new # <<>>
             /\ PermissionNameTaken(new)
             /\ workers' = [workers EXCEPT ![w] = [@ EXCEPT !.pc = "IntegrityError"]]
             /\ UNCHANGED <<permissions, printed>>
    /\ UNCHANGED <<phase, roles, role_id, departments, outlets, seq, no_post_list>>
    /\ UNCHANGED <<password, password_resets, refresh_tokens>>

\* create_staff_role up to db.add: the user type is tested and the Role is
\* built and added to the session; nothing has been sent to the database.
AddStaffRole(w, u, data_name) ==
    /\ workers[w].pc = "serving"
    /\ workers' = IF user_type[u] # COMPANY
                  THEN workers
                  ELSE [workers EXCEPT ![w] =
                           [@ EXCEPT !.pc = "added",
                                     !.staff_role = [name |-> lower(data_name), company_id |-> u]]]
    /\ UNCHANGED <<phase, permissions, roles, role_id, departments, outlets, seq, printed,
                   no_post_list>>
    /\ UNCHANGED <<password, password_resets, refresh_tokens>>

\* create_staff_role from the commit on: the insert is judged by the role_name
\* constraint against the rows committed by then.
CommitStaffRole(w) ==
    /\ workers[w].pc = "added"
    /\ roles' = create_staff_role(workers[w].staff_role.company_id, workers[w].staff_role.name).rows
    /\ roles' # roles => seq["roles"] < MaxRoles
    /\ seq' = [seq EXCEPT !["roles"] = IF roles' # roles THEN @ + 1 ELSE @]
    /\ workers' = [workers EXCEPT ![w] = [@ EXCEPT !.pc = "serving", !.staff_role = NoStaffRole]]
    /\ UNCHANGED <<phase, permissions, role_id, departments, outlets, printed, no_post_list>>
    /\ UNCHANGED <<password, password_resets, refresh_tokens>>

\* create_no_post_list, served by a worker.
CreateNoPostList(w, u, content) ==
    /\ workers[w].pc = "serving"
    /\ no_post_list' = create_no_post_list(u, NoPostCreate(content)).rows
    /\ UNCHANGED <<phase, permissions, roles, role_id, departments, outlets, seq, printed,
                   workers>>
    /\ UNCHANGED <<password, password_resets, refresh_tokens>>

NextWorkers ==
    \/ \E w \in Workers : SelectPermissionNames(w)
    \/ \E w \in Workers : AddNewPermissions(w)
    \/ \E w \in Workers, u \in Users, name \in RoleNameInputs : AddStaffRole(w, u, name)
    \/ \E w \in Workers : CommitStaffRole(w)
    \/ \E w \in Workers, u \in Users, content \in NoPostInputs : CreateNoPostList(w, u, content)

SpecWorkers == Init /\ [][NextWorkers]_vars

(***************************************************************************)
(* Roles granted to users: the role store and role assignment, with the    *)
(* permission lists of a department manager and of an outlet manager.      *)
(***************************************************************************)
NextGrants ==
    \/ pre_create_permissions
    \/ \E u \in Users, name \in RoleNameInputs : CreateStaffRole(u, name)
    \/ \E u \in Users, rid \in RoleIdInputs, names \in GrantInputs :
           UpdateRoleWithPermissions(u, rid, names)
    \/ \E u \in Users, user_id \in UserIdInputs, rid \in RoleIdInputs :
           AssignRoleToStaff(u, user_id, rid)

SpecGrants == Init /\ [][NextGrants]_vars

(***************************************************************************)
(* Properties.                                                             *)
(***************************************************************************)
ExactlyOnce(name) == Cardinality({p \in permissions : p.name = name}) = 1

\* C1: once the startup hook has run, from any starting catalog, every
\* "{action}_{resource}" name is in the catalog exactly once; a run that
\* follows another run prints that it added nothing and leaves the catalog
\* as it was.
C1_ReconcileCompletesAndIsIdempotent ==
    /\ [](printed # <<>> =>
            /\ \A i \in DOMAIN ActionResourcePairs :
                   ExactlyOnce(generate_permission(ActionResourcePairs[i].action,
                                                   ActionResourcePairs[i].resource))
            /\ \A k \in 2..Len(printed) : printed[k] = 0)
    /\ [][(printed # <<>> /\ Len(printed') = Len(printed) + 1) => permissions' = permissions]_vars

\* A second run of the hook has followed a first run that had rows to add.
C1_Witness == Len(printed) = 2 /\ printed[1] > 0 /\ phase = "serving"

\* C2: has_permission is false for a user without a role or whose role has
\* an empty permission list, and otherwise true exactly for the names of the
\* entries of the role's list.
C2_HasPermissionIsMembershipByName ==
    \A u \in Users, p \in PermissionNames \cup {UnknownPermissionName} :
        IF role_id[u] = NoRole \/ \A r \in roles : r.id = role_id[u] => Len(r.user_permissions) = 0
        THEN has_permission(u, p) = FALSE
        ELSE has_permission(u, p) =
                 (\E r \in roles : /\ r.id = role_id[u]
                                   /\ \E i \in 1..Len(r.user_permissions) :
                                          r.user_permissions[i].name = p)

\* A user holds a role that grants one permission and not another.
C2_Witness ==
    \E u \in Users : /\ role_id[u] # NoRole
                     /\ has_permission(u, "create_departments")
                     /\ ~has_permission(u, "delete_outlets")

Forbidden(o, required_permission, rows) ==
    /\ o.exc = "HTTP_403_FORBIDDEN"
    /\ o.detail = "Permission denied: " \o required_permission
    /\ o.rows = rows

C3_Denied ==
    phase = "serving" =>
        \A u \in Users :
            /\ ~has_permission(u, "create_departments") =>
                   \A name \in ResourceNameInputs :
                       Forbidden(create_department(u, name), "create_departments", departments)
            /\ ~has_permission(u, "delete_departments") =>
                   \A id \in 1..MaxDepartments :
                       Forbidden(delete_company_department(u, id), "delete_departments", departments)
            /\ ~has_permission(u, "create_outlets") =>
                   \A name \in ResourceNameInputs :
                       Forbidden(create_outlet(u, name), "create_outlets", outlets)
            /\ ~has_permission(u, "delete_outlets") =>
                   \A id \in 1..MaxOutlets :
                       Forbidden(delete_company_outlet(u, id), "delete_outlets", outlets)

C3_MutationAuthorized ==
    /\ departments' # departments =>
           \E u \in Users :
               \/ /\ has_permission(u, "create_departments")
                  /\ \E name \in ResourceNameInputs : departments' = create_department(u, name).rows
               \/ /\ has_permission(u, "delete_departments")
                  /\ \E id \in 1..MaxDepartments : departments' = delete_company_department(u, id).rows
    /\ outlets' # outlets =>
           \E u \in Users :
               \/ /\ has_permission(u, "create_outlets")
                  /\ \E name \in ResourceNameInputs : outlets' = create_outlet(u, name).rows
               \/ /\ has_permission(u, "delete_outlets")
                  /\ \E id \in 1..MaxOutlets : outlets' = delete_company_outlet(u, id).rows

\* C3: creating or deleting a department or an outlet as a user for whom
\* has_permission is false for the operation's permission fails with the 403
\* "Permission denied: <permission>" and writes no row; every step that
\* changes the departments or the outlets is a request of a user who holds
\* the matching permission in the state the request is made in.
C3_MutationsAreGated == []C3_Denied /\ [][C3_MutationAuthorized]_vars

\* A department exists while a user who holds a role lacks the permission
\* to delete departments.
C3_Witness ==
    /\ departments # {}
    /\ \E u \in Users : role_id[u] # NoRole /\ ~has_permission(u, "delete_departments")

\* C4: creating a role whose lower-cased name an existing role of the same
\* company has raises the duplicate-role error that carries the name and adds
\* no role; without such a role the creation succeeds, whatever roles other
\* companies have.
C4_DuplicateRoleIsATypedError ==
    phase = "serving" =>
        \A u \in Companies, name \in RoleNameInputs :
            LET o == create_staff_role(u, name)
            IN IF \E r \in roles : r.name = lower(name) /\ r.company_id = u
               THEN /\ o.exc # NULL
                    /\ o.detail = "A role with this name '" \o lower(name)
                                     \o "' already exists for this company"
                    /\ o.rows = roles
               ELSE /\ o.exc = NULL
                    /\ \E r \in o.rows \ roles : r.name = lower(name) /\ r.company_id = u

\* C5: a role update that carries a name the catalog lacks fails with the
\* unknown-permission error naming it, and the role's list stays as it was.
C5_UnknownPermissionIsATypedError ==
    phase = "serving" =>
        \A u \in Users, rid \in RoleIdInputs, names \in PermissionListInputs :
            ((\E r \in roles : r.id = rid /\ r.company_id = u)
               /\ (\E i \in DOMAIN names : \A p \in permissions : p.name # names[i])) =>
                LET o == update_role_with_permissions(u, rid, names)
                    first == CHOOSE i \in DOMAIN names :
                                 /\ \A p \in permissions : p.name # names[i]
                                 /\ \A j \in 1..(i - 1) : \E p \in permissions : p.name = names[j]
                IN /\ o.exc = "UnknownPermission"
                   /\ o.detail = names[first]
                   /\ o.rows = roles

\* C6: a role assignment issued by a company with a role of another company
\* fails and leaves the target user's role_id as it was.
C6_CrossTenantAssignmentRejected ==
    phase = "serving" =>
        \A u \in Companies, user_id \in UserIdInputs \cap Users, r \in roles :
            r.company_id # u =>
                LET o == assign_role_to_user(u, user_id, r.id)
                IN o.exc # NULL /\ o.rows[user_id] = role_id[user_id]

\* C7: every user whose role_id is set refers to an existing role of the
\* user's effective company.
C7_RoleOfOwnCompany ==
    \A u \in Users :
        role_id[u] # NoRole =>
            \E r \in roles : r.id = role_id[u] /\ r.company_id = EffectiveCompany(u)

\* C8 as stated: deleting a department or an outlet by the id of a row of
\* another company than the caller's effective company fails with the 404
\* and the row stays.
C8_ForeignRowNotFound ==
    phase = "serving" =>
        \A u \in Users :
            /\ \A d \in departments :
                   d.company_id # EffectiveCompany(u) =>
                       LET o == delete_company_department(u, d.id)
                       IN o.exc = "HTTP_404_NOT_FOUND" /\ d \in o.rows
            /\ \A x \in outlets :
                   x.company_id # EffectiveCompany(u) =>
                       LET o == delete_company_outlet(u, x.id)
                       IN o.exc = "HTTP_404_NOT_FOUND" /\ x \in o.rows

\* C8 amended: deleting a department or an outlet by the id of a row of
\* another company than the caller's effective company fails and the row
\* stays: with the 404 when the caller holds the delete permission, with the
\* 403 of the permission gate when not.
C8_ForeignRowNotDeleted ==
    phase = "serving" =>
        \A u \in Users :
            /\ \A d \in departments :
                   d.company_id # EffectiveCompany(u) =>
                       LET o == delete_company_department(u, d.id)
                       IN /\ o.exc = IF has_permission(u, "delete_departments")
                                     THEN "HTTP_404_NOT_FOUND" ELSE "HTTP_403_FORBIDDEN"
                          /\ d \in o.rows
            /\ \A x \in outlets :
                   x.company_id # EffectiveCompany(u) =>
                       LET o == delete_company_outlet(u, x.id)
                       IN /\ o.exc = IF has_permission(u, "delete_outlets")
                                     THEN "HTTP_404_NOT_FOUND" ELSE "HTTP_403_FORBIDDEN"
                          /\ x \in o.rows

\* A user who may delete departments, and a department of another company.
C8_Witness ==
    \E u \in Users, d \in departments :
        /\ has_permission(u, "delete_departments")
        /\ d.company_id # EffectiveCompany(u)
        /\ d.company_id \in Companies

\* C9: a department or outlet a staff member creates carries the id of the
\* staff member's company, and so is among the rows listed for that company.
C9_StaffRowsBelongToTheCompany ==
    phase = "serving" =>
        \A u \in Users, name \in ResourceNameInputs :
            user_type[u] = STAFF =>
                /\ \A d \in create_department(u, name).rows \ departments :
                       /\ d.company_id = EffectiveCompany(u)
                       /\ \E c \in Companies :
                              /\ c = EffectiveCompany(u)
                              /\ d \in {e \in create_department(u, name).rows :
                                            e.company_id = EffectiveCompany(c)}
                /\ \A x \in create_outlet(u, name).rows \ outlets :
                       /\ x.company_id = EffectiveCompany(u)
                       /\ \E c \in Companies :
                              /\ c = EffectiveCompany(u)
                              /\ x \in {e \in create_outlet(u, name).rows :
                                            e.company_id = EffectiveCompany(c)}

\* C10: a company user without a role is not refused by the permission gate
\* when it creates or deletes departments and outlets of its own company.
C10_CompanyNeedsNoRole ==
    phase = "serving" =>
        \A u \in Companies :
            role_id[u] = NoRole =>
                /\ \A name \in ResourceNameInputs :
                       /\ create_department(u, name).exc # "HTTP_403_FORBIDDEN"
                       /\ create_outlet(u, name).exc # "HTTP_403_FORBIDDEN"
                /\ \A id \in 1..MaxDepartments :
                       delete_company_department(u, id).exc # "HTTP_403_FORBIDDEN"
                /\ \A id \in 1..MaxOutlets :
                       delete_company_outlet(u, id).exc # "HTTP_403_FORBIDDEN"

\* The names a permission list carries.
Names(data_permissions) == {data_permissions[i] : i \in DOMAIN data_permissions}

AllPermissionNames == PermissionNames \cup {UnknownPermissionName}

C11_NewRoleGrantsNothing ==
    /\ \A r \in roles' : (~\E q \in roles : q.id = r.id) => r.user_permissions = <<>>
    /\ \A s \in Users :
           (role_id'[s] # role_id[s]
              /\ \E r \in roles' : r.id = role_id'[s] /\ r.user_permissions = <<>>) =>
               \A p \in AllPermissionNames : ~has_permission(s, p)'

C11_UpdateReachesHolders ==
    \A s \in Users :
        (role_id[s] # NoRole /\ role_id'[s] = role_id[s]) =>
            \A r \in {q \in roles : q.id = role_id[s]}, names \in GrantInputs :
                LET o == update_role_with_permissions(r.company_id, r.id, names)
                IN (o.exc = NULL /\ roles' = o.rows) =>
                       \A p \in AllPermissionNames :
                           has_permission(s, p)' <=> p \in Names(names)

\* C11: a role is created with no permissions, and a user who is assigned a
\* role with no permissions holds no permission; after a successful update of
\* the role's list to L, every user who already holds the role, and is not
\* assigned anew, holds exactly the permissions named in L.
C11_PermissionChangesReachHolders ==
    [][C11_NewRoleGrantsNothing /\ C11_UpdateReachesHolders]_vars

\* A staff member holds a role of the company it works for, and that role
\* has been given a permission.
C11_Witness ==
    \E r \in roles :
        /\ role_id["sA"] = r.id
        /\ r.company_id = "cA"
        /\ r.user_permissions # <<>>
        /\ has_permission("sA", "create_departments")

\* C12: no two roles have the same name and the same company_id, also when
\* workers have each added a role of the same name and company to their
\* session before either commits: the role_name constraint lets one commit
\* insert its row and no other.
C12_RoleNameUniquePerCompany ==
    \A r1 \in roles, r2 \in roles :
        (r1.name = r2.name /\ r1.company_id = r2.company_id) => r1 = r2

\* Two workers each hold an uncommitted role of the same name and company.
C12_Witness ==
    \E w1 \in Workers, w2 \in Workers :
        /\ w1 # w2
        /\ workers[w1].pc = "added"
        /\ workers[w2].pc = "added"
        /\ workers[w1].staff_role = workers[w2].staff_role

\* C13: every role's company_id is the id of a COMPANY user: a role creation
\* requested by a STAFF or GUEST user fails and adds no role, and the role a
\* COMPANY user's request adds carries that user's id.
C13_RolesBelongToCompanyUsers ==
    /\ \A r \in roles : r.company_id \in Users /\ user_type[r.company_id] = COMPANY
    /\ phase = "serving" =>
           \A u \in Users, name \in RoleNameInputs :
               LET o == create_staff_role(u, name)
               IN IF user_type[u] \in {STAFF, GUEST}
                  THEN o.exc # NULL /\ o.rows = roles
                  ELSE \A r \in o.rows \ roles : r.company_id = u

\* Each of the two companies has created a role.
C13_Witness ==
    /\ phase = "serving"
    /\ \A c \in Companies : \E r \in roles : r.company_id = c

\* C14: a role update by an id that no role has, or that a role of another
\* company than the caller's has, fails with "No role exists for this
\* company", and no role's permission list changes.
C14_MissingOrForeignRoleNotFound ==
    phase = "serving" =>
        \A u \in Users, rid \in RoleIdInputs, names \in PermissionListInputs :
            (~\E r \in roles : r.id = rid /\ r.company_id = EffectiveCompany(u)) =>
                LET o == update_role_with_permissions(u, rid, names)
                IN /\ o.exc = "Exception"
                   /\ o.detail = "No role exists for this company"
                   /\ o.rows = roles

\* One company has a role with permissions, the other company has none, and
\* an id of the requests is the id of no role.
C14_Witness ==
    /\ phase = "serving"
    /\ \E r \in roles : r.company_id = "cA" /\ r.user_permissions # <<>>
    /\ ~\E r \in roles : r.company_id = "cB"
    /\ \E rid \in RoleIdInputs : ~\E r \in roles : r.id = rid

\* C15: a successful role update replaces the role's list: the list then has
\* as many entries as the request has names, entry i is the catalog's id, name
\* and description of the i-th name, and every other role is as it was.
C15_UpdateReplacesTheList ==
    phase = "serving" =>
        \A u \in Users, rid \in RoleIdInputs, names \in PermissionListInputs :
            LET o == update_role_with_permissions(u, rid, names)
            IN o.exc = NULL =>
                   /\ Cardinality({r \in o.rows : r.id = rid}) = 1
                   /\ \A r \in o.rows :
                          r.id = rid =>
                              /\ Len(r.user_permissions) = Len(names)
                              /\ \A i \in 1..Len(names) :
                                     \E p \in permissions :
                                         /\ p.name = names[i]
                                         /\ r.user_permissions[i] =
                                                [id |-> p.id, name |-> p.name,
                                                 description |-> p.description]
                   /\ {r \in o.rows : r.id # rid} = {r \in roles : r.id # rid}

\* A role holds a list of two different permissions, which a later update
\* replaces.
C15_Witness ==
    /\ phase = "serving"
    /\ \E r \in roles :
           /\ Len(r.user_permissions) >= 2
           /\ r.user_permissions[1].name # r.user_permissions[2].name

\* C16 as stated: reading one role or listing the roles never returns a role
\* of another company than the caller's, a role of another company is not
\* found by its id, and the listing is exactly the roles of the caller's
\* company.
C16_RoleReadsAreTheCallersCompany ==
    \A u \in Users :
        /\ \A rid \in RoleIdInputs :
               \A r \in get_company_staff_role(u, rid) : r.company_id = EffectiveCompany(u)
        /\ \A r \in roles :
               r.company_id # EffectiveCompany(u) => get_company_staff_role(u, r.id) = {}
        /\ get_all_company_staff_roles(u) = {r \in roles : r.company_id = EffectiveCompany(u)}

\* C16 amended: reading one role or listing the roles never returns a role of
\* another company than the caller's, and a role of another company is not
\* found by its id; the listing is exactly the roles of the caller's company
\* when the caller is the COMPANY user, and is empty when the caller is a
\* STAFF or GUEST user.
C16_RoleReadsAreScopedToTheCallersId ==
    \A u \in Users :
        /\ \A rid \in RoleIdInputs :
               \A r \in get_company_staff_role(u, rid) : r.company_id = EffectiveCompany(u)
        /\ \A r \in roles :
               r.company_id # EffectiveCompany(u) => get_company_staff_role(u, r.id) = {}
        /\ \A r \in get_all_company_staff_roles(u) : r.company_id = EffectiveCompany(u)
        /\ get_all_company_staff_roles(u) =
               IF user_type[u] = COMPANY
               THEN {r \in roles : r.company_id = EffectiveCompany(u)}
               ELSE {}

\* Each company has a role, and the staff member of one of them holds a role.
C16_Witness ==
    /\ \E r \in roles : r.company_id = "cA"
    /\ \E r \in roles : r.company_id = "cB"
    /\ role_id["sA"] # NoRole

\* The names "{action}_{resource}" of the cross product of the enumerations.
CrossProductNames ==
    {ActionEnum[i] \o "_" \o ResourceEnum[j] : i \in DOMAIN ActionEnum, j \in DOMAIN ResourceEnum}

\* C17: no step removes a row of the catalog or changes its name or
\* description, so the catalog of a state contains the catalog of every
\* earlier state; and every row's name is "{action}_{resource}" for an action
\* and a resource of the enumerations.
C17_CatalogIsAppendOnly ==
    /\ [](\A p \in permissions : p.name \in CrossProductNames)
    /\ [][permissions \subseteq permissions']_vars

\* The catalog is filled, a role has taken snapshots of it, and a department
\* and an outlet have been created since.
C17_Witness ==
    /\ permissions # {}
    /\ \E r \in roles : r.user_permissions # <<>>
    /\ departments # {}
    /\ outlets # {}

\* C18: when the startup hooks of several workers interleave (each reads the
\* names before any commits), no hook ends on the unique constraint of the
\* permission names, and once all have finished every "{action}_{resource}"
\* name is in the catalog exactly once.
C18_InterleavedReconcileSucceeds ==
    /\ \A w \in Workers : workers[w].pc # "IntegrityError"
    /\ (\A w \in Workers : workers[w].pc \notin {"startup", "selected"}) =>
           \A name \in CrossProductNames : ExactlyOnce(name)

\* C19: the store holds at most one no-post record per company, whatever
\* creates the workers have served; a create by a user of a company succeeds
\* and leaves the company one record with the content given: the record the
\* company had, its id unchanged, when it had one, and a new record when it
\* had none.
C19_NoPostListIsUpserted ==
    /\ \A c \in Companies : Cardinality({r \in no_post_list : r.company_id = c}) <= 1
    /\ (\E w \in Workers : workers[w].pc = "serving") =>
           \A u \in Users, content \in NoPostInputs :
               EffectiveCompany(u) \in Companies =>
                   LET o == create_no_post_list(u, NoPostCreate(content))
                       existing == get_company_no_post_list(u)
                       after == {r \in o.rows : r.company_id = EffectiveCompany(u)}
                   IN /\ o.exc = NULL
                      /\ Cardinality(after) = 1
                      /\ \A r \in after :
                             /\ r.no_post_list = content
                             /\ \A e \in existing : r.id = e.id

UniqueNamePerCompany(rows) ==
    \A r1 \in rows, r2 \in rows :
        (r1.name = r2.name /\ r1.company_id = r2.company_id) => r1 = r2

\* C20: creating a department or an outlet whose lower-cased name a row of
\* the same company has fails with the error that names the resource and the
\* name, and inserts no row; no two departments, and no two outlets, have the
\* same name and company_id.
C20_DuplicateNameIsATypedError ==
    /\ UniqueNamePerCompany(departments)
    /\ UniqueNamePerCompany(outlets)
    /\ phase = "serving" =>
           \A u \in Users, name \in ResourceNameInputs :
               /\ (/\ has_permission(u, "create_departments")
                   /\ \E d \in departments :
                          d.name = lower(name) /\ d.company_id = EffectiveCompany(u)) =>
                      LET o == create_department(u, name)
                      IN /\ o.exc # NULL
                         /\ o.detail = "A department with this name '" \o lower(name)
                                          \o "' already exists for this company"
                         /\ o.rows = departments
               /\ (/\ has_permission(u, "create_outlets")
                   /\ \E x \in outlets :
                          x.name = lower(name) /\ x.company_id = EffectiveCompany(u)) =>
                      LET o == create_outlet(u, name)
                      IN /\ o.exc # NULL
                         /\ o.detail = "Outlet with this name '" \o lower(name)
                                          \o "' already exists for this company"
                         /\ o.rows = outlets

\* C21: listing the departments, the outlets or the no-post list returns, to
\* any user and whatever role the user holds, exactly the rows whose
\* company_id is the user's effective company.
C21_ListsAreTheEffectiveCompanysRows ==
    \A u \in Users :
        LET company == IF user_type[u] = COMPANY THEN u ELSE company_id[u]
        IN /\ \A d \in departments : d \in get_company_departments(u) <=> d.company_id = company
           /\ get_company_departments(u) \subseteq departments
           /\ \A x \in outlets : x \in get_company_outlets(u) <=> x.company_id = company
           /\ get_company_outlets(u) \subseteq outlets
           /\ \A n \in no_post_list : n \in get_company_no_post_list(u) <=> n.company_id = company
           /\ get_company_no_post_list(u) \subseteq no_post_list

\* A staff member who holds no role is listed a department of the company.
C21_Witness ==
    /\ role_id["sA"] = NoRole
    /\ get_company_departments("sA") # {}
    /\ \E d \in departments : d.company_id # "cB"

C22_AssignmentOutcome ==
    phase = "serving" =>
        \A u \in Users, user_id \in UserIdInputs, rid \in RoleIdInputs :
            LET o == assign_role_to_user(u, user_id, rid)
            IN IF user_id \notin Users \/ ~\E r \in roles : r.id = rid
               THEN o.exc = "NotFound" /\ o.rows = role_id
               ELSE /\ o.exc = NULL
                    /\ o.rows[user_id] = rid
                    /\ \A v \in Users \ {user_id} : o.rows[v] = role_id[v]

C22_AssignmentFrame ==
    role_id' # role_id =>
        /\ Cardinality({v \in Users : role_id'[v] # role_id[v]}) = 1
        /\ \A v \in Users : role_id'[v] # role_id[v] => \E r \in roles : r.id = role_id'[v]
        /\ roles' = roles
        /\ permissions' = permissions

\* C22: a role assignment whose target user or role does not exist fails with
\* NotFound and changes nothing; one that succeeds sets the target user's
\* role_id to the role's id, and the step changes the role_id of no other
\* user, no role and no permission.
C22_AssignmentChangesOnlyTheTarget ==
    []C22_AssignmentOutcome /\ [][C22_AssignmentFrame]_vars

\* A user has been assigned a role while another user holds a different one,
\* and an id of the requests is the id of no role.
C22_Witness ==
    /\ \E v \in Users, w \in Users :
           role_id[v] # NoRole /\ role_id[w] # NoRole /\ role_id[v] # role_id[w]
    /\ \E r \in roles : r.user_permissions # <<>>

\* The rows a request inserts, rewrites or deletes.
Written(before, after) == (after \ before) \cup (before \ after)

\* C23: every role, department, outlet or no-post row that a request
\* inserts, updates or deletes has the company_id of the caller's effective
\* company.
C23_WritesStayInTheCallersCompany ==
    phase = "serving" =>
        \A u \in Users :
            /\ \A name \in RoleNameInputs :
                   \A r \in Written(roles, create_staff_role(u, name).rows) :
                       r.company_id = EffectiveCompany(u)
            /\ \A rid \in RoleIdInputs, names \in GrantInputs :
                   \A r \in Written(roles, update_role_with_permissions(u, rid, names).rows) :
                       r.company_id = EffectiveCompany(u)
            /\ \A name \in ResourceNameInputs :
                   /\ \A d \in Written(departments, create_department(u, name).rows) :
                          d.company_id = EffectiveCompany(u)
                   /\ \A x \in Written(outlets, create_outlet(u, name).rows) :
                          x.company_id = EffectiveCompany(u)
            /\ \A id \in 1..MaxDepartments :
                   \A d \in Written(departments, delete_company_department(u, id).rows) :
                       d.company_id = EffectiveCompany(u)
            /\ \A id \in 1..MaxOutlets :
                   \A x \in Written(outlets, delete_company_outlet(u, id).rows) :
                       x.company_id = EffectiveCompany(u)
            /\ \A content \in NoPostInputs :
                   \A n \in Written(no_post_list, create_no_post_list(u, NoPostCreate(content)).rows) :
                       n.company_id = EffectiveCompany(u)

\* A request that ended in an exception has written nothing.
NothingWritten(o, rows) == o.exc # NULL => o.rows = rows

\* C24: a request that ends in an error (permission denied, not found,
\* duplicate, unknown permission, or any other exception) leaves the table it
\* writes, and so every table, as it was before the request.
C24_FailedRequestsWriteNothing ==
    phase = "serving" =>
        \A u \in Users :
            /\ \A name \in RoleNameInputs : NothingWritten(create_staff_role(u, name), roles)
            /\ \A rid \in RoleIdInputs, names \in GrantInputs :
                   NothingWritten(update_role_with_permissions(u, rid, names), roles)
            /\ \A user_id \in UserIdInputs, rid \in RoleIdInputs :
                   NothingWritten(assign_role_to_user(u, user_id, rid), role_id)
            /\ \A name \in ResourceNameInputs :
                   /\ NothingWritten(create_department(u, name), departments)
                   /\ NothingWritten(create_outlet(u, name), outlets)
            /\ \A id \in 1..MaxDepartments :
                   NothingWritten(delete_company_department(u, id), departments)
            /\ \A id \in 1..MaxOutlets :
                   NothingWritten(delete_company_outlet(u, id), outlets)
            /\ \A content \in NoPostInputs :
                   NothingWritten(create_no_post_list(u, NoPostCreate(content)), no_post_list)

\* A company owns a role that has permissions (an update naming a permission
\* the catalog lacks would fail on it), a department exists, and a user lacks
\* the permission to delete it.
C24_Witness ==
    /\ phase = "serving"
    /\ \E r \in roles : r.company_id \in Companies /\ r.user_permissions # <<>>
    /\ departments # {}
    /\ \E u \in Users : ~has_permission(u, "delete_departments")

\* The startup hook has run once and the catalog lacks no name.
CatalogReady ==
    /\ phase = "serving"
    /\ Len(printed) = 1
    /\ \A name \in CrossProductNames : \E p \in permissions : p.name = name

\* C25: the startup hook has run exactly once, and has completed, before a
\* request is served: whenever requests are served, and in every step in
\* which a request writes, the hook has printed once and every
\* "{action}_{resource}" name is in the catalog.
C25_ReconcileBeforeRequests ==
    /\ [](phase = "serving" => CatalogReady)
    /\ [][(\/ roles' # roles
            \/ role_id' # role_id
            \/ departments' # departments
            \/ outlets' # outlets
            \/ no_post_list' # no_post_list) => CatalogReady]_vars

\* Requests have been served: a role has permissions and a department exists.
C25_Witness ==
    /\ phase = "serving"
    /\ printed = <<Cardinality(CrossProductNames)>>
    /\ \E r \in roles : r.user_permissions # <<>>
    /\ departments # {}

\* A request that returned has added a row to the table.
ReturnedOnlyWithANewRow(o, rows) == o.exc = NULL => o.rows \ rows # {}

\* C26: creating a role, a department or an outlet returns to the caller
\* only when a new row has been stored; a commit the store refuses ends the
\* request with an exception.
C26_NoSilentEmptySuccess ==
    phase = "serving" =>
        \A u \in Users :
            /\ \A name \in RoleNameInputs :
                   ReturnedOnlyWithANewRow(create_staff_role(u, name), roles)
            /\ \A name \in ResourceNameInputs :
                   /\ ReturnedOnlyWithANewRow(create_department(u, name), departments)
                   /\ ReturnedOnlyWithANewRow(create_outlet(u, name), outlets)

\* C27: a role update requested by a STAFF or GUEST user fails and changes no
\* role, whatever role the user holds; an update succeeds only for the user
\* whose id is the role's company_id, and that user is a COMPANY user.
C27_OnlyTheOwningCompanyUpdatesARole ==
    phase = "serving" =>
        \A u \in Users, rid \in RoleIdInputs, names \in PermissionListInputs :
            LET o == update_role_with_permissions(u, rid, names)
            IN /\ user_type[u] \in {STAFF, GUEST} => (o.exc # NULL /\ o.rows = roles)
               /\ o.exc = NULL =>
                      /\ user_type[u] = COMPANY
                      /\ \E r \in roles : r.id = rid /\ r.company_id = u
               /\ o.rows # roles => o.exc = NULL

\* The staff member holds a role of the company it works for.
C27_Witness ==
    /\ phase = "serving"
    /\ \E r \in roles : role_id["sA"] = r.id /\ r.company_id = company_id["sA"]

(***************************************************************************)
(* Passwords, password resets and refresh tokens (auth_service.py).        *)
(* The handlers are operators over the three tables; an exception that     *)
(* leaves the handler before db.commit() leaves the tables as they were,   *)
(* because get_db closes the session without committing.                   *)
(***************************************************************************)

\* users.email, unique per user.
email == [u \in Users |-> u \o "@example.com"]

\* Names the module auth_service binds: its imports, pwd_context and its
\* functions.  A name outside this set raises NameError where it is read.
AuthServiceNames ==
    {"BackgroundTasks", "HTTPException", "status", "AsyncSession", "select",
     "Optional", "Tuple", "datetime", "timedelta", "uuid", "jwt",
     "CryptContext", "User", "PasswordReset", "UserCreate", "UserLogin",
     "UserUpdate", "UserUpdatePassword", "settings", "RefreshToken",
     "MessageSchema", "PasswordResetConfirm", "PasswordResetRequest",
     "UserResponse", "pwd_context", "hash_password", "verify_password",
     "create_user", "login_user", "update_user", "update_password",
     "send_password_reset_email", "request_password_reset",
     "confirm_password_reset"}

\* Attributes the mapped class RefreshToken declares.
RefreshTokenAttributes ==
    {"__tablename__", "id", "token", "expires_at", "is_revoked", "created_at",
     "user_id", "user"}

AuthTables ==
    [password |-> password, password_resets |-> password_resets,
     refresh_tokens |-> refresh_tokens]

\* UPDATE refresh_tokens SET is_revoked = true
\*  WHERE user_id = :user_id AND is_revoked = false
RevokeRefreshTokens(user_id) ==
    {IF t.user_id = user_id /\ ~t.is_revoked
        THEN [t EXCEPT !.is_revoked = TRUE] ELSE t : t \in refresh_tokens}

update_password(user_id, current_password, new_password) ==
    IF user_id \notin Users
      THEN Outcome("HTTP_404_NOT_FOUND", "User not found", NULL, AuthTables)
    ELSE IF ~verify_password(current_password, password[user_id])
      THEN Outcome("HTTP_400_BAD_REQUEST", "Current password is incorrect",
                   NULL, AuthTables)
    ELSE IF "where" \notin RefreshTokenAttributes
      THEN Outcome("AttributeError",
                   "type object 'RefreshToken' has no attribute 'where'",
                   NULL, AuthTables)
    ELSE Outcome(NULL, NULL, user_id,
                 [AuthTables EXCEPT
                    !.password = [password EXCEPT
                                    ![user_id] = hash_password(new_password)],
                    !.refresh_tokens = RevokeRefreshTokens(user_id)])

\* send_password_reset_email builds the message and then reads FastMail and
\* mail_config.
send_password_reset_email ==
    IF {"FastMail", "mail_config"} \subseteq AuthServiceNames
      THEN NULL ELSE "NameError"

\* uuid4: a token no row holds yet.
NewResetToken == Cardinality(password_resets) + 1

request_password_reset(address) ==
    IF ~\E u \in Users : email[u] = address
      THEN Outcome(NULL, NULL, NULL, AuthTables)
    ELSE LET user == CHOOSE u \in Users : email[u] = address
             password_reset == [token |-> NewResetToken, user_id |-> user,
                                expired |-> FALSE, is_used |-> FALSE]
             committed == [AuthTables EXCEPT
                             !.password_resets = @ \cup {password_reset}]
         IN  IF send_password_reset_email # NULL
               THEN Outcome(send_password_reset_email,
                            "name 'FastMail' is not defined", NULL, committed)
               ELSE Outcome(NULL, NULL, NULL, committed)

\* The rows the select of confirm_password_reset matches: the token, not
\* expired, not used.
ValidResets(token) ==
    {r \in password_resets : r.token = token /\ ~r.expired /\ ~r.is_used}

InvalidResetDetail == "Invalid or expired password reset token"

confirm_password_reset(token, new_password) ==
    IF ValidResets(token) = {}
      THEN Outcome("HTTP_400_BAD_REQUEST", InvalidResetDetail, NULL, AuthTables)
    ELSE LET password_reset == CHOOSE r \in ValidResets(token) : TRUE
             user == password_reset.user_id
         IN  IF user \notin Users
               THEN Outcome("HTTP_404_NOT_FOUND", "User not found", NULL,
                            AuthTables)
             ELSE IF "update" \notin AuthServiceNames
               THEN Outcome("NameError", "name 'update' is not defined", NULL,
                            AuthTables)
             ELSE Outcome(NULL, NULL, user,
                    [password |-> [password EXCEPT
                                     ![user] = hash_password(new_password)],
                     password_resets |->
                        (password_resets \ {password_reset})
                          \cup {[password_reset EXCEPT !.is_used = TRUE]},
                     refresh_tokens |-> RevokeRefreshTokens(user)])

\* Inputs of the password requests.
PasswordInputs == {InitialPassword, "secret-2"}
EmailInputs == {email["cA"], email["sA"], "nobody@example.com"}
AuthUserIdInputs == {"cA", "sA", "nobody"}
ResetTokenInputs == 1 .. MaxResets

\* The refresh_tokens tables requests can find: each token is absent or is
\* one row of a user, revoked or not; token is unique.
RefreshTokenRows ==
    [token : 1 .. MaxRefreshTokens, user_id : {"cA", "sA"}, is_revoked : BOOLEAN]
RefreshTokenTables ==
    {T \in SUBSET RefreshTokenRows :
        \A t1 \in T, t2 \in T : t1.token = t2.token => t1 = t2}

CommitAuth(rows) ==
    /\ password' = rows.password
    /\ password_resets' = rows.password_resets
    /\ refresh_tokens' = rows.refresh_tokens
    /\ UNCHANGED <<phase, permissions, roles, role_id, departments, outlets,
                   seq, printed, no_post_list, workers>>

UpdatePassword(user_id, current_password, new_password) ==
    /\ phase = "serving"
    /\ CommitAuth(update_password(user_id, current_password, new_password).rows)

RequestPasswordReset(address) ==
    /\ phase = "serving"
    /\ Cardinality(password_resets) < MaxResets
    /\ CommitAuth(request_password_reset(address).rows)

ConfirmPasswordReset(token, new_password) ==
    /\ phase = "serving"
    /\ CommitAuth(confirm_password_reset(token, new_password).rows)

\* datetime.utcnow() passes the expires_at of a token; every token lives the
\* same number of hours, so the oldest live token is the one that expires.
ResetTokenExpires ==
    /\ phase = "serving"
    /\ \E r \in password_resets :
          /\ ~r.expired
          /\ \A q \in password_resets : q.token < r.token => q.expired
          /\ password_resets' =
                (password_resets \ {r}) \cup {[r EXCEPT !.expired = TRUE]}
    /\ UNCHANGED <<phase, permissions, roles, role_id, departments, outlets,
                   seq, printed, no_post_list, workers, password,
                   refresh_tokens>>

InitAuth ==
    /\ phase = "startup"
    /\ permissions = {}
    /\ roles = {}
    /\ role_id = [u \in Users |-> NoRole]
    /\ departments = {}
    /\ outlets = {}
    /\ seq = [t \in {"roles", "departments", "outlets"} |-> 0]
    /\ printed = <<>>
    /\ no_post_list = {}
    /\ workers = [w \in Workers |-> NotStarted]
    /\ password = [u \in Users |-> hash_password(InitialPassword)]
    /\ password_resets = {}
    /\ refresh_tokens \in RefreshTokenTables

NextAuth ==
    \/ pre_create_permissions
    \/ \E user_id \in AuthUserIdInputs, current_password \in PasswordInputs,
          new_password \in PasswordInputs :
          UpdatePassword(user_id, current_password, new_password)
    \/ \E address \in EmailInputs : RequestPasswordReset(address)
    \/ \E token \in ResetTokenInputs, new_password \in PasswordInputs :
          ConfirmPasswordReset(token, new_password)
    \/ ResetTokenExpires

SpecAuth == InitAuth /\ [][NextAuth]_vars

(***************************************************************************)
(* C28: a password-reset token is single-use.  A confirm whose token is    *)
(* unknown, expired or already used fails with the invalid-or-expired      *)
(* error and changes no password; a confirm whose token is live returns    *)
(* the user, stores the new password and marks the token used, so that     *)
(* every later confirm with the same token is of the first kind.           *)
(***************************************************************************)
C28_DeadTokenChangesNoPassword ==
    phase = "serving" =>
      \A token \in ResetTokenInputs, new_password \in PasswordInputs :
        LET o == confirm_password_reset(token, new_password)
        IN  ValidResets(token) = {} =>
              /\ o.exc = "HTTP_400_BAD_REQUEST"
              /\ o.detail = InvalidResetDetail
              /\ o.rows = AuthTables

C28_LiveTokenIsConsumed ==
    phase = "serving" =>
      \A token \in ResetTokenInputs, new_password \in PasswordInputs :
        LET o == confirm_password_reset(token, new_password)
        IN  \A r \in ValidResets(token) :
              /\ o.exc = NULL
              /\ o.rows.password[r.user_id] = hash_password(new_password)
              /\ \A q \in o.rows.password_resets : q.token = token => q.is_used

\* C28: a dead token changes nothing and a live token is consumed by the
\* confirm that uses it.
C28_ResetTokenIsSingleUse ==
    C28_DeadTokenChangesNoPassword /\ C28_LiveTokenIsConsumed

(***************************************************************************)
(* C29: update_password with the current password of an existing user, and *)
(* confirm_password_reset with a live token, return normally and revoke    *)
(* every refresh token of that user and change no refresh token of another *)
(* user; a call that fails changes no refresh token.                       *)
(***************************************************************************)
RevokedFor(user_id, rows) ==
    /\ \A t \in rows.refresh_tokens : t.user_id = user_id => t.is_revoked
    /\ {t \in rows.refresh_tokens : t.user_id # user_id}
         = {t \in refresh_tokens : t.user_id # user_id}
    /\ {t.token : t \in rows.refresh_tokens} = {t.token : t \in refresh_tokens}

C29_FailureChangesNoRefreshToken ==
    phase = "serving" =>
      /\ \A user_id \in AuthUserIdInputs, current_password \in PasswordInputs,
            new_password \in PasswordInputs :
           LET o == update_password(user_id, current_password, new_password)
           IN  o.exc # NULL => o.rows.refresh_tokens = refresh_tokens
      /\ \A token \in ResetTokenInputs, new_password \in PasswordInputs :
           LET o == confirm_password_reset(token, new_password)
           IN  o.exc # NULL => o.rows.refresh_tokens = refresh_tokens

C29_SuccessRevokesTheUsersTokens ==
    phase = "serving" =>
      /\ \A user_id \in AuthUserIdInputs, current_password \in PasswordInputs,
            new_password \in PasswordInputs :
           LET o == update_password(user_id, current_password, new_password)
           IN  (user_id \in Users
                  /\ verify_password(current_password, password[user_id])) =>
                 o.exc = NULL /\ RevokedFor(user_id, o.rows)
      /\ \A token \in ResetTokenInputs, new_password \in PasswordInputs :
           LET o == confirm_password_reset(token, new_password)
           IN  \A r \in ValidResets(token) :
                 o.exc = NULL /\ RevokedFor(r.user_id, o.rows)

\* C29: a failed call changes no refresh token and a successful one revokes
\* exactly the refresh tokens of its user.
C29_PasswordChangeRevokesRefreshTokens ==
    C29_FailureChangesNoRefreshToken /\ C29_SuccessRevokesTheUsersTokens

====
